---------------------------- MODULE Spec2Model ----------------------------
(***************************************************************************)
(* A model of suzi_poo.py: the SQLite-backed conversation settings, the    *)
(* learned-message log, the reminder table with its periodic scan          *)
(* (check_reminders), the command handlers and the mention detector.       *)
(*                                                                         *)
(* asyncio runs one coroutine at a time and switches only at an await, so  *)
(* every action below is the code between two awaits of one handler.       *)
(***************************************************************************)
EXTENDS Integers, Sequences, FiniteSets, TLC

(***************************************************************************)
(* Bounds of the model.                                                    *)
(***************************************************************************)
\* the clock runs over the wall-clock values 0..MaxTime
MaxTime == 1
\* how many reminders are scheduled in one run
MaxSched == 2
\* how many check_reminders tasks may be alive at once
MaxScans == 2
\* how many rows table messages holds at most
MaxMsgs == 2
\* how long the texts are that the mention detector is run on
MaxLen == 5

VARIABLES
    settings,   \* the rows of table settings
    messages,   \* the rows of table messages, in the order of their insertion
    reminders,  \* the rows of table reminders
    clock,      \* datetime.utcnow(), a naive datetime
    scans,      \* the check_reminders tasks that are at their await, in the
                \* order of their creation
    finished,   \* history: what the scan that ended last fetched, and whether
                \* a send of it failed
    ids,        \* history: the id of every row add_reminder inserted, in order
    attempts,   \* history: per scheduled reminder, how often send was invoked
                \* (0, 1, or 2 for more than once)
    late,       \* history: the reminders sent by a scan started at/after dueAt
    lastOp,     \* the handler that ran last, with its input
    reply       \* the reply_text calls of the handler that ran last

vars == <<settings, messages, reminders, clock, scans, finished, ids, attempts, late, lastOp, reply>>

Range(s) == {s[i] : i \in 1..Len(s)}

Min(a, b) == IF a <= b THEN a ELSE b

\* a reply_text call: which message, and for a computed message its text
Said(kind) == [kind |-> kind, text |-> <<>>]

Max(S) == CHOOSE x \in S : \A y \in S : y <= x

(***************************************************************************)
(* datetime values.  t stands for the fixed-width, zero-padded fields      *)
(* YYYY-MM-DDTHH:MM:SS, us for the microsecond field (0, or 1 for any      *)
(* non-zero value), aware for a tzinfo, off for its UTC offset in units    *)
(* of t.                                                                   *)
(***************************************************************************)
Offsets == {-1, 1}

Naive(t, us) == [t |-> t, us |-> us, aware |-> FALSE, off |-> 0]

Aware(t, us, off) == [t |-> t, us |-> us, aware |-> TRUE, off |-> off]

\* the datetimes a user asks a reminder for
DueTimes == 0..1

DateTimes ==
    {Naive(t, 0) : t \in DueTimes} \cup {Aware(t, 0, off) : t \in DueTimes, off \in Offsets}

\* The absolute UTC instant a datetime denotes (a naive one is read as UTC).
Instant(dt) == [t |-> dt.t - dt.off, us |-> dt.us]

InstantLE(a, b) == a.t < b.t \/ (a.t = b.t /\ a.us <= b.us)

\* "%02d"
Digits2(n) == <<48 + (n \div 10), 48 + (n % 10)>>

Abs(n) == IF n < 0 THEN -n ELSE n

\* datetime.isoformat(), as a sequence of character codes: the padded fields,
\* ".ffffff" only when the microsecond is not 0, "+HH:MM" / "-HH:MM" only for
\* an aware datetime.  ('+' = 43, '-' = 45, '.' = 46, '0'..'9' = 48..57)
isoformat(dt) ==
    Digits2(dt.t)
        \o (IF dt.us # 0 THEN <<46, 53>> ELSE <<>>)
        \o (IF dt.aware
            THEN <<(IF dt.off >= 0 THEN 43 ELSE 45)>> \o Digits2(Abs(dt.off))
            ELSE <<>>)

\* SQLite's comparison of two TEXT values (BINARY collation): memcmp over the
\* common prefix, then the shorter one is the smaller.
RECURSIVE TextLE(_, _)
TextLE(a, b) ==
    IF a = <<>> THEN TRUE
    ELSE IF b = <<>> THEN FALSE
    ELSE IF Head(a) # Head(b) THEN Head(a) < Head(b)
    ELSE TextLE(Tail(a), Tail(b))

(***************************************************************************)
(* The reminder table.  A row is [id, remind_at]; seq (the number of the   *)
(* add_reminder call that made it) and dt (the datetime it was made from)  *)
(* are history fields no query reads.                                      *)
(***************************************************************************)
\* INTEGER PRIMARY KEY without AUTOINCREMENT: the new rowid is one more than
\* the largest rowid now in the table, 1 for an empty table.
NextRowId(tbl) == IF tbl = {} THEN 1 ELSE Max({r.id : r \in tbl}) + 1

add_reminder(tbl, seq, remind_at) ==
    tbl \cup {[id |-> NextRowId(tbl), remind_at |-> isoformat(remind_at),
               seq |-> seq, dt |-> remind_at]}

\* SELECT ... FROM reminders WHERE remind_at <= ?
get_due_reminders(tbl, before_dt) ==
    {r \in tbl : TextLE(r.remind_at, isoformat(before_dt))}

\* DELETE FROM reminders WHERE id=?
delete_reminder(tbl, rem_id) == {r \in tbl : r.id # rem_id}

\* The rows of a result set in the order of the table scan (by rowid).
RECURSIVE ByRowId(_)
ByRowId(S) ==
    IF S = {} THEN <<>>
    ELSE LET r == CHOOSE x \in S : \A y \in S : x.id <= y.id
         IN  <<r>> \o ByRowId(S \ {r})

(***************************************************************************)
(* /remind <when> | <message>.  The text of <when> is one of four shapes.  *)
(***************************************************************************)
WhenShapes == {"iso", "ymd_hm", "ymd_hm_unpadded", "junk"}

WhenTexts ==
    {[shape |-> "iso", dt |-> d] : d \in DateTimes}
        \cup {[shape |-> s, dt |-> Naive(t, 0)] :
                s \in WhenShapes \ {"iso"}, t \in DueTimes}

NoDate == [ok |-> FALSE]

\* datetime.fromisoformat: an isoformat() output, and so also the padded
\* 'YYYY-MM-DD HH:MM' (any one character may separate date and time).
fromisoformat(w) ==
    IF w.shape \in {"iso", "ymd_hm"} THEN [ok |-> TRUE, dt |-> w.dt] ELSE NoDate

\* datetime.strptime(when_part, "%Y-%m-%d %H:%M"): padded or not, always naive.
strptime(w) ==
    IF w.shape \in {"ymd_hm", "ymd_hm_unpadded"}
    THEN [ok |-> TRUE, dt |-> w.dt] ELSE NoDate

\* The try/except chain of cmd_remind.
ParseWhen(w) == IF fromisoformat(w).ok THEN fromisoformat(w) ELSE strptime(w)

UsageRemind == "Usage: /remind <YYYY-MM-DD HH:MM> | <message>"

CouldntParse == "Couldn't parse datetime. Use 'YYYY-MM-DD HH:MM'"

cmd_remind(hasBar, w) ==
    /\ Len(ids) < MaxSched
    /\ lastOp' = [op |-> "remind", hasBar |-> hasBar, shape |-> w.shape]
    /\ IF ~hasBar
       THEN /\ reply' = <<Said(UsageRemind)>>
            /\ UNCHANGED <<reminders, ids>>
       ELSE IF ~ParseWhen(w).ok
       THEN /\ reply' = <<Said(CouldntParse)>>
            /\ UNCHANGED <<reminders, ids>>
       ELSE /\ reminders' = add_reminder(reminders, Len(ids) + 1, ParseWhen(w).dt)
            /\ ids' = Append(ids, NextRowId(reminders))
            /\ reply' = <<[kind |-> "Reminder set for",
                            text |-> isoformat(ParseWhen(w).dt)]>>
    /\ UNCHANGED <<settings, messages, clock, scans, finished, attempts, late>>

(***************************************************************************)
(* check_reminders.  A task runs from its creation to its first await      *)
(* (ScanStart), and from the return of one send to the next await or to    *)
(* its end (ScanResume).                                                   *)
(***************************************************************************)
ScanIds == 1..MaxScans

\* scans without the task at position k
Without(k) == [j \in 1..(Len(scans) - 1) |-> IF j < k THEN scans[j] ELSE scans[j + 1]]

\* The columns check_reminders selects (chat_id, user_id and message, which
\* only the text of the send reads, are left out), with the history fields.
Selected(r) == [id |-> r.id, seq |-> r.seq, dt |-> r.dt]

Seqs(rows) == {r.seq : r \in rows}

\* app.bot.send_message is invoked for row r by a scan that read the clock as now
InvokeSend(r, now) ==
    /\ attempts' = [attempts EXCEPT ![r.seq] = Min(@ + 1, 2)]
    /\ late' = IF InstantLE(Instant(r.dt), Instant(now))
               THEN late \cup {r.seq} ELSE late

ScanStart ==
    /\ Len(scans) < MaxScans
    /\ LET rows == ByRowId(get_due_reminders(reminders, clock))
           due == [i \in 1..Len(rows) |-> Selected(rows[i])]
       IN  IF due = <<>>
           THEN /\ finished' = [fired |-> {}, failed |-> FALSE]
                /\ UNCHANGED <<scans, attempts, late>>
           ELSE /\ scans' = Append(scans,
                       [now |-> clock, due |-> due, i |-> 1, failed |-> FALSE])
                /\ InvokeSend(due[1], clock)
                /\ UNCHANGED finished
    /\ lastOp' = [op |-> "scan"]
    /\ reply' = <<>>
    /\ UNCHANGED <<settings, messages, reminders, clock, ids>>

\* The table after a send has returned: lines 275-279, the except clause that
\* passes over a failed send and the delete that follows it either way.
AfterSend_DeleteOnSuccess(tbl, rem_id, ok) ==
    IF ok THEN delete_reminder(tbl, rem_id) ELSE tbl

AfterSend(tbl, rem_id, ok) == delete_reminder(tbl, rem_id)

\* the awaited send returns (ok) or raises an Exception (~ok), which is
\* passed over; then the row is deleted and the loop goes on
ScanResume(k, ok) ==
    /\ k <= Len(scans)
    /\ LET s == scans[k]
           rem == s.due[s.i]
           failed == s.failed \/ ~ok
       IN  /\ reminders' = AfterSend(reminders, rem.id, ok)
           /\ IF s.i < Len(s.due)
              THEN /\ scans' = [scans EXCEPT ![k] =
                          [s EXCEPT !.i = s.i + 1, !.failed = failed]]
                   /\ InvokeSend(s.due[s.i + 1], s.now)
                   /\ UNCHANGED finished
              ELSE /\ scans' = Without(k)
                   /\ finished' = [fired |-> Seqs(Range(s.due)), failed |-> failed]
                   /\ UNCHANGED <<attempts, late>>
    /\ lastOp' = [op |-> "scan"]
    /\ reply' = <<>>
    /\ UNCHANGED <<settings, messages, clock, ids>>

\* time passes
Tick ==
    /\ \/ clock.us = 0 /\ clock' = [clock EXCEPT !.us = 1]
       \/ clock.us = 1 /\ clock.t < MaxTime /\ clock' = Naive(clock.t + 1, 0)
    /\ UNCHANGED <<settings, messages, reminders, scans, finished, ids, attempts,
                   late, lastOp, reply>>

(***************************************************************************)
(* The chats of the model: a private chat and a group.                     *)
(***************************************************************************)
Chats == {"private_chat", "group_chat"}

ChatType(chat) == IF chat = "private_chat" THEN "private" ELSE "group"

Tones == {"kind", "angry"}

Langs == {"en", "ta", "hi"}

(***************************************************************************)
(* Table settings: chat_id (the primary key), learn_enabled, tone, lang.   *)
(***************************************************************************)
RowsOf(tbl, chat_id) == {r \in tbl : r.chat_id = chat_id}

RowOf(tbl, chat_id) == CHOOSE r \in tbl : r.chat_id = chat_id

\* INSERT ... ON CONFLICT(chat_id) DO UPDATE SET <cols> = excluded.<cols>
Upsert(tbl, new, cols) ==
    IF RowsOf(tbl, new.chat_id) = {}
    THEN tbl \cup {new}
    ELSE {IF r.chat_id = new.chat_id
          THEN [c \in DOMAIN r |-> IF c \in cols THEN new[c] ELSE r[c]]
          ELSE r : r \in tbl}

is_learning_enabled_DefaultOn(tbl, chat_id) ==
    \A r \in RowsOf(tbl, chat_id) : r.learn_enabled = 1

is_learning_enabled(tbl, chat_id) ==
    RowsOf(tbl, chat_id) # {} /\ RowOf(tbl, chat_id).learn_enabled = 1

\* SELECT <key> FROM settings, without the WHERE chat_id=?
get_setting_AnyRow(tbl, chat_id, key, default) ==
    IF tbl # {} THEN (CHOOSE r \in tbl : TRUE)[key] ELSE default

get_setting(tbl, chat_id, key, default) ==
    IF RowsOf(tbl, chat_id) # {} THEN RowOf(tbl, chat_id)[key] ELSE default

\* COALESCE((SELECT <key> FROM settings WHERE chat_id=?), <default>): no
\* stored column is ever NULL, so this is the stored value or the default.
Coalesce(tbl, chat_id, key, default) == get_setting(tbl, chat_id, key, default)

set_learning(tbl, chat_id, enabled) ==
    Upsert(tbl,
           [chat_id |-> chat_id, learn_enabled |-> IF enabled THEN 1 ELSE 0,
            tone |-> Coalesce(tbl, chat_id, "tone", "kind"),
            lang |-> Coalesce(tbl, chat_id, "lang", "en")],
           {"learn_enabled"})

set_setting_FromDefaults(tbl, chat_id, key, val) ==
    Upsert(tbl,
           [chat_id |-> chat_id, learn_enabled |-> 0,
            tone |-> IF key = "tone" THEN val ELSE "kind",
            lang |-> IF key = "lang" THEN val ELSE "en"],
           {"learn_enabled", "tone", "lang"})

set_setting(tbl, chat_id, key, val) ==
    LET existing == RowsOf(tbl, chat_id) # {}
        old == IF existing
               THEN RowOf(tbl, chat_id)
               ELSE [chat_id |-> chat_id, learn_enabled |-> 0,
                     tone |-> "kind", lang |-> "en"]
    IN  Upsert(tbl,
               [chat_id |-> chat_id, learn_enabled |-> old.learn_enabled,
                tone |-> IF key = "tone" THEN val ELSE old.tone,
                lang |-> IF key = "lang" THEN val ELSE old.lang],
               {"learn_enabled", "tone", "lang"})

(***************************************************************************)
(* /learn_on and /learn_off.  status is what chat.get_member answers for   *)
(* the issuer, lookup whether that call returns or raises, and denialSent  *)
(* whether the reply_text of the denial returns or raises.                 *)
(***************************************************************************)
MemberStatuses == {"creator", "administrator", "member"}

AdminStatuses == {"administrator", "creator"}

\* What the calls of cmd_learn_on and cmd_learn_off may do for a chat: an
\* outcome is drawn only for a call the handler makes.
Lookups(chat) ==
    IF ChatType(chat) \in {"group", "supergroup"}
    THEN {[status |-> st, lookup |-> "ok", denialSent |-> d] :
             st \in MemberStatuses \ AdminStatuses, d \in BOOLEAN}
         \cup {[status |-> st, lookup |-> "ok", denialSent |-> TRUE] :
                 st \in AdminStatuses}
         \cup {[status |-> st, lookup |-> "raises", denialSent |-> TRUE] :
                 st \in MemberStatuses}
    ELSE {[status |-> "member", lookup |-> "none", denialSent |-> TRUE]}

\* Whether the handler goes on to the write: the try block of lines 300-307.
\* An Exception of get_member, and one of the denial's reply_text, is passed
\* over by the except clause, and the handler goes on.
PassesAdminCheck(chat, status, lookup, denialSent) ==
    \/ ~(ChatType(chat) \in {"group", "supergroup"})
    \/ lookup # "ok"
    \/ status \in AdminStatuses
    \/ ~denialSent

\* Whether the denial is replied (or tried).
Denies(chat, status, lookup) ==
    /\ ChatType(chat) \in {"group", "supergroup"}
    /\ lookup = "ok"
    /\ status \notin AdminStatuses

cmd_learn(chat, enable, status, lookup, denialSent) ==
    /\ lastOp' = [op |-> IF enable THEN "learn_on" ELSE "learn_off", chat |-> chat,
                  status |-> status, lookup |-> lookup, denialSent |-> denialSent]
    /\ LET denial == IF Denies(chat, status, lookup)
                     THEN <<Said(IF enable
                                 THEN "Only group admins can enable learning."
                                 ELSE "Only group admins can disable learning.")>>
                     ELSE <<>>
       IN  IF PassesAdminCheck(chat, status, lookup, denialSent)
           THEN /\ settings' = set_learning(settings, chat, enable)
                /\ reply' = denial \o
                       <<Said(IF enable THEN "Learning ENABLED for this chat."
                              ELSE "Learning DISABLED for this chat.")>>
           ELSE /\ reply' = denial
                /\ UNCHANGED settings
    /\ UNCHANGED <<messages, reminders, clock, scans, finished, ids, attempts, late>>

cmd_learn_on(chat, status, lookup, denialSent) ==
    cmd_learn(chat, TRUE, status, lookup, denialSent)

cmd_learn_off(chat, status, lookup, denialSent) ==
    cmd_learn(chat, FALSE, status, lookup, denialSent)

(***************************************************************************)
(* /settone and /setlang.  context.args is the list of the words after the *)
(* command.                                                                *)
(***************************************************************************)
\* str.lower() of a word
LowerWord(w) ==
    CASE w = "KIND" -> "kind"
      [] w = "Angry" -> "angry"
      [] w = "TA" -> "ta"
      [] OTHER -> w

\* the tests of lines 331 and 343
ValidTone_Any(t) == TRUE

ValidTone(t) == t \in {"kind", "angry"}

ValidLang(l) == l \in {"en", "ta", "hi"}

ToneArgs == {<<>>, <<"kind">>, <<"Angry">>, <<"loud">>, <<"angry", "loud">>}

LangArgs == {<<>>, <<"en">>, <<"TA">>, <<"hi">>, <<"fr">>, <<"hi", "fr">>}

cmd_settone(chat, args) ==
    /\ lastOp' = [op |-> "settone", chat |-> chat, args |-> args]
    /\ IF args = <<>>
       THEN /\ reply' = <<Said("Usage: /settone kind|angry")>>
            /\ UNCHANGED settings
       ELSE LET t == LowerWord(args[1])
            IN  IF ~ValidTone(t)
                THEN /\ reply' = <<Said("Tone must be kind or angry.")>>
                     /\ UNCHANGED settings
                ELSE /\ settings' = set_setting(settings, chat, "tone", t)
                     /\ reply' = <<[kind |-> "Tone set to", text |-> <<t>>]>>
    /\ UNCHANGED <<messages, reminders, clock, scans, finished, ids, attempts, late>>

cmd_setlang(chat, args) ==
    /\ lastOp' = [op |-> "setlang", chat |-> chat, args |-> args]
    /\ IF args = <<>>
       THEN /\ reply' = <<Said("Usage: /setlang en|ta|hi")>>
            /\ UNCHANGED settings
       ELSE LET l == LowerWord(args[1])
            IN  IF ~ValidLang(l)
                THEN /\ reply' = <<Said("Language must be en, ta, or hi")>>
                     /\ UNCHANGED settings
                ELSE /\ settings' = set_setting(settings, chat, "lang", l)
                     /\ reply' = <<[kind |-> "Language set to", text |-> <<l>>]>>
    /\ UNCHANGED <<messages, reminders, clock, scans, finished, ids, attempts, late>>

(***************************************************************************)
(* Text.  A str is a sequence of characters, each a one-letter string; one *)
(* character, Emoji, stands for the characters outside the Basic           *)
(* Multilingual Plane, which are one character of a Python str and two     *)
(* UTF-16 code units of a Telegram offset.                                 *)
(***************************************************************************)
LowerCase == <<"a", "b", "c", "d", "e", "f", "g", "h", "i", "j", "k", "l", "m",
               "n", "o", "p", "q", "r", "s", "t", "u", "v", "w", "x", "y", "z">>

UpperCase == <<"A", "B", "C", "D", "E", "F", "G", "H", "I", "J", "K", "L", "M",
               "N", "O", "P", "Q", "R", "S", "T", "U", "V", "W", "X", "Y", "Z">>

Emoji == "<emoji>"

IsLower(c) == \E i \in 1..Len(LowerCase) : LowerCase[i] = c

IsUpper(c) == \E i \in 1..Len(UpperCase) : UpperCase[i] = c

UpperChar(c) ==
    IF IsLower(c) THEN UpperCase[CHOOSE i \in 1..Len(LowerCase) : LowerCase[i] = c]
    ELSE c

LowerChar(c) ==
    IF IsUpper(c) THEN LowerCase[CHOOSE i \in 1..Len(UpperCase) : UpperCase[i] = c]
    ELSE c

\* str.upper(), str.lower()
upper(text) == [i \in 1..Len(text) |-> UpperChar(text[i])]

lower(text) == [i \in 1..Len(text) |-> LowerChar(text[i])]

\* str.isupper(): some cased character, and no lowercase one
isupper(text) ==
    /\ \E i \in 1..Len(text) : IsUpper(text[i])
    /\ \A i \in 1..Len(text) : ~IsLower(text[i])

IsSpace(c) == c = " "

\* str.lstrip(chars), for a set of characters
RECURSIVE lstrip(_, _)
lstrip(text, chars) ==
    IF text # <<>> /\ Head(text) \in chars THEN lstrip(Tail(text), chars) ELSE text

RECURSIVE rstrip(_, _)
rstrip(text, chars) ==
    IF text # <<>> /\ text[Len(text)] \in chars
    THEN rstrip(SubSeq(text, 1, Len(text) - 1), chars)
    ELSE text

\* str.strip()
strip(text) == rstrip(lstrip(text, {" "}), {" "})

\* text[a:b] for 0 <= a, 0 <= b: the characters numbered a..b-1 from 0, as
\* many of them as the text has
Slice(text, a, b) == SubSeq(text, a + 1, Min(b, Len(text)))

\* The UTF-16 code units of a text, in which Telegram counts offset and length.
RECURSIVE Utf16(_)
Utf16(text) ==
    IF text = <<>> THEN <<>>
    ELSE (IF Head(text) = Emoji THEN <<"<high>", "<low>">> ELSE <<Head(text)>>)
            \o Utf16(Tail(text))

(***************************************************************************)
(* Tone.                                                                   *)
(***************************************************************************)
\* the angry tone without the strip and without the "HMM." of a blank text
apply_tone_NoStrip(text, tone) ==
    IF tone = "angry" THEN upper(text) \o <<"!">> ELSE text

apply_tone(text, tone) ==
    IF tone = "angry"
    THEN LET t == strip(text)
         IN  IF t = <<>> THEN <<"H", "M", "M", ".">> ELSE upper(t) \o <<"!">>
    ELSE text

\* apply_tone is applied to a text, and to its own result
ToneApplied(text, tone) ==
    /\ lastOp' = [op |-> "apply_tone", text |-> text, tone |-> tone]
    /\ reply' = <<[kind |-> "once", text |-> apply_tone(text, tone)],
                  [kind |-> "twice",
                   text |-> apply_tone(apply_tone(text, tone), tone)]>>
    /\ UNCHANGED <<settings, messages, reminders, clock, scans, finished, ids,
                   attempts, late>>

\* the fallback greetings; a word in Tamil or Devanagari script, which has no
\* letter case, is one character here
Fallbacks(lang) ==
    CASE lang = "ta" ->
            <<"<vanakkam>", "!", " ", "<naan>", " ", "S", "u", "z", "i", " ",
              "P", "o", "o", ".", " ", "<kelungal>", ".">>
      [] lang = "hi" ->
            <<"<namaste>", "!", " ", "<main>", " ", "S", "u", "z", "i", " ",
              "P", "o", "o", " ", "<hoon>", "|", " ", "<poochhie>", "|">>
      [] OTHER ->
            <<"H", "e", "l", "l", "o", "!", " ", "I", " ", "a", "m", " ",
              "S", "u", "z", "i", " ", "P", "o", "o", ".", " ",
              "A", "s", "k", " ", "m", "e", " ", "a", "n", "y", "t", "h", "i", "n", "g", ".">>

(***************************************************************************)
(* Table messages and the Markov model built from it.                      *)
(***************************************************************************)
\* store_message keeps text[:MaxTextLen]
MaxTextLen == 4000

\* build_markov reads the MARKOV_LINES newest rows of a chat
MARKOV_LINES == 2000

\* the generation loop of message_handler: range(MaxTries)
MaxTries == 6

\* the shouting rule: len(text) > ScoldMinLen
ScoldMinLen == 3

\* INSERT INTO messages; an Exception of the insert (~stored) is logged and
\* passed over
store_message(tbl, chat_id, text, stored) ==
    IF stored
    THEN Append(tbl, [chat_id |-> chat_id, text |-> Slice(text, 0, MaxTextLen)])
    ELSE tbl

\* SELECT text FROM messages WHERE chat_id=? ORDER BY created_at DESC LIMIT ?
RECURSIVE RecentTexts(_, _, _)
RecentTexts(tbl, chat_id, limit) ==
    IF tbl = <<>> \/ limit = 0 THEN <<>>
    ELSE LET r == tbl[Len(tbl)]
             rest == SubSeq(tbl, 1, Len(tbl) - 1)
         IN  IF r.chat_id = chat_id
             THEN <<r.text>> \o RecentTexts(rest, chat_id, limit - 1)
             ELSE RecentTexts(rest, chat_id, limit)

\* build_markov: the lines of the model's corpus, or none when there is no
\* model: markovify is not installed, the chat has no rows, the joined text
\* is blank, or markovify.NewlineText raises (~built).
NoModel == [model |-> FALSE, lines |-> {}]

build_markov(tbl, chat_id, installed, built) ==
    LET rows == RecentTexts(tbl, chat_id, MARKOV_LINES)
        lines == {t \in Range(rows) : t # <<>>}
    IN  IF ~installed THEN NoModel
        ELSE IF rows = <<>> THEN NoModel
        ELSE IF \A t \in lines : strip(t) = <<>> THEN NoModel
        ELSE IF ~built THEN NoModel
        ELSE [model |-> TRUE, lines |-> lines]

(***************************************************************************)
(* The mention detector of message_handler.  A message is                  *)
(* [text, entities, reply_to, is_bot]; an entity [type, offset, length,    *)
(* user], user the id of the user a text_mention names.                    *)
(***************************************************************************)
BotId == "bot"

\* (await context.bot.get_me()).username
BotUsername == <<"S", "u">>

Entity(type, offset, length, user) ==
    [type |-> type, offset |-> offset, length |-> length, user |-> user]

Message(text, entities, reply_to, is_bot) ==
    [text |-> text, entities |-> entities, reply_to |-> reply_to, is_bot |-> is_bot]

\* lines 440-451, on the stripped text of line 430
Mentioned(text, m) ==
    LET bot_username == lower(BotUsername)
    IN  \/ \E n \in 1..Len(m.entities) :
              LET ent == m.entities[n]
                  ent_text == Slice(text, ent.offset, ent.offset + ent.length)
              IN  \/ ent.type = "mention"
                        /\ lower(lstrip(ent_text, {"@"})) = bot_username
                  \/ ent.type = "text_mention" /\ ent.user = BotId
        \/ m.reply_to = BotId

(***************************************************************************)
(* message_handler.  stored, installed, fetched, built, firstOK and        *)
(* sendFails are the outcomes of what the handler calls: whether the       *)
(* insert of store_message succeeds, whether markovify is installed,       *)
(* whether the SELECT of build_markov returns (it is outside the try of    *)
(* lines 188-193), whether NewlineText builds, which call of make_sentence *)
(* is the first to return a sentence (MaxTries + 1: none does; a call that *)
(* returns None and one that raises both go on to the next), and how many  *)
(* reply_text calls of the generation loop raise before one returns (after *)
(* a reply_text that raised, the except clause of line 465 goes on to the  *)
(* next make_sentence, which returns the sentence again).  candidate is    *)
(* the sentence.                                                           *)
(***************************************************************************)
\* how many times the loop of lines 459-466 calls reply_text
GenerationSends(firstOK, sendFails) ==
    IF firstOK > MaxTries THEN 0 ELSE Min(sendFails + 1, MaxTries + 1 - firstOK)

\* whether the loop ends in the return of line 464
LoopReturns(firstOK, sendFails) ==
    firstOK <= MaxTries /\ sendFails < MaxTries + 1 - firstOK

\* how many times the loop calls make_sentence, for a model
GenerationTries(firstOK, sendFails) ==
    IF LoopReturns(firstOK, sendFails) THEN firstOK + sendFails ELSE MaxTries

\* whether an Exception leaves the handler: the one of build_markov's SELECT
Propagates(text, m, installed, fetched) ==
    Mentioned(text, m) /\ installed /\ ~fetched

\* The reply_text calls of lines 453-479, in their order, for the stripped
\* text of a message and table messages as the store of line 435 left it.
Replies(stbl, mtbl, chat, text, m, installed, fetched, built, firstOK, sendFails, candidate) ==
    LET tone == get_setting(stbl, chat, "tone", "kind")
        lang == get_setting(stbl, chat, "lang", "en")
        model == build_markov(mtbl, chat, installed, built)
        generated == [kind |-> "generated", text |-> apply_tone(candidate, tone)]
        fallback == [kind |-> "fallback", text |-> apply_tone(Fallbacks(lang), tone)]
    IN  IF Mentioned(text, m)
        THEN IF Propagates(text, m, installed, fetched) THEN <<>>
             ELSE IF ~model.model THEN <<fallback>>
             ELSE [i \in 1..GenerationSends(firstOK, sendFails) |-> generated]
                      \o (IF LoopReturns(firstOK, sendFails) THEN <<>>
                          ELSE <<fallback>>)
        ELSE IF isupper(text) /\ Len(text) > ScoldMinLen
                  /\ get_setting(stbl, chat, "tone", "kind") = "angry"
             THEN <<Said("Calm down please!")>>
             ELSE <<>>

\* Whether an Exception of the insert leaves message_handler: store_message
\* catches and logs it (lines 124-125), so none does.
StoreRaises_Uncaught(stored) == ~stored

StoreRaises(stored) == FALSE

\* table messages after lines 432-437
StoreStep(stbl, mtbl, chat, text, m, stored) ==
    IF is_learning_enabled(stbl, chat) /\ ~m.is_bot
    THEN store_message(mtbl, chat, text, stored)
    ELSE mtbl

message_handler(chat, m, stored, installed, fetched, built, firstOK, sendFails, candidate) ==
    /\ (is_learning_enabled(settings, chat) /\ ~m.is_bot /\ stored)
            => Len(messages) < MaxMsgs
    /\ lastOp' = [op |-> "message", chat |-> chat, msg |-> m, stored |-> stored,
                  installed |-> installed, fetched |-> fetched, built |-> built,
                  firstOK |-> firstOK, sendFails |-> sendFails,
                  candidate |-> candidate]
    /\ IF m.text = <<>>
       THEN /\ reply' = <<>>
            /\ UNCHANGED messages
       ELSE LET text == strip(m.text)
                stored_now == StoreStep(settings, messages, chat, text, m, stored)
            IN  /\ messages' = stored_now
                /\ reply' = IF /\ is_learning_enabled(settings, chat) /\ ~m.is_bot
                                /\ StoreRaises(stored)
                             THEN <<>>
                             ELSE Replies(settings, stored_now, chat, text, m,
                                          installed, fetched, built, firstOK,
                                          sendFails, candidate)
    /\ UNCHANGED <<settings, reminders, clock, scans, finished, ids, attempts, late>>

\* What the calls of message_handler may do, for a message in a chat: an
\* outcome is drawn only for a call the handler makes.
Outcome(stored, installed, fetched, built, firstOK, sendFails, candidate) ==
    [stored |-> stored, installed |-> installed, fetched |-> fetched,
     built |-> built, firstOK |-> firstOK, sendFails |-> sendFails,
     candidate |-> candidate]

\* the outcomes in which every SELECT returns and every reply_text returns
Outcomes(chat, m) ==
    LET text == strip(m.text)
        learn == m.text # <<>> /\ is_learning_enabled(settings, chat) /\ ~m.is_bot
        asked == m.text # <<>> /\ Mentioned(text, m)
    IN  UNION {
          LET tbl == IF learn THEN store_message(messages, chat, text, stored)
                     ELSE messages
              lines == build_markov(tbl, chat, TRUE, TRUE).lines
          IN  IF ~asked
              THEN {Outcome(stored, TRUE, TRUE, TRUE, MaxTries + 1, 0, <<>>)}
              ELSE {Outcome(stored, FALSE, TRUE, TRUE, MaxTries + 1, 0, <<>>),
                    Outcome(stored, TRUE, TRUE, TRUE, MaxTries + 1, 0, <<>>)}
                   \cup (IF lines = {} THEN {}
                         ELSE {Outcome(stored, TRUE, TRUE, FALSE, MaxTries + 1, 0, <<>>)}
                              \cup {Outcome(stored, TRUE, TRUE, TRUE, n, 0, c) :
                                       n \in {1, MaxTries}, c \in lines}) :
          stored \in (IF learn THEN BOOLEAN ELSE {TRUE})}

\* every outcome: also a SELECT of build_markov that raises, and reply_text
\* calls of the generation loop that raise
ReplyOutcomes(chat, m) ==
    LET text == strip(m.text)
        learn == m.text # <<>> /\ is_learning_enabled(settings, chat) /\ ~m.is_bot
        asked == m.text # <<>> /\ Mentioned(text, m)
    IN  Outcomes(chat, m) \cup UNION {
          LET tbl == IF learn THEN store_message(messages, chat, text, stored)
                     ELSE messages
              lines == build_markov(tbl, chat, TRUE, TRUE).lines
          IN  IF ~asked THEN {}
              ELSE {Outcome(stored, TRUE, FALSE, TRUE, MaxTries + 1, 0, <<>>)}
                   \cup {Outcome(stored, TRUE, TRUE, TRUE, n, f, c) :
                            n \in {1, MaxTries}, f \in {1, MaxTries}, c \in lines} :
          stored \in (IF learn THEN BOOLEAN ELSE {TRUE})}

(***************************************************************************)
(* The messages and the /remind timestamps the handlers are run on.        *)
(***************************************************************************)
Txt_hi == <<"h", "i">>

Txt_SU_HEY == <<"@", "S", "U", " ", "H", "E", "Y">>

MsgSamples ==
    { Message(Txt_hi, <<>>, "nobody", FALSE),
      Message(Txt_hi, <<>>, "nobody", TRUE),
      Message(Txt_SU_HEY, <<>>, "nobody", FALSE),
      Message(Txt_SU_HEY, <<Entity("mention", 0, 3, "nobody")>>, "nobody", FALSE),
      Message(Txt_hi, <<>>, BotId, FALSE),
      Message(<<>>, <<>>, "nobody", FALSE) }

\* three emoji, a mention of somebody else, and the bot's username as a word
Txt_x_Su == <<Emoji, Emoji, Emoji, "@", "x", " ", "S", "u">>

\* the messages the reply composer is run on: a shouted mention of the bot,
\* the same text without the mention entity, a reply to a message of the bot,
\* a text_mention of the bot, and a mention of somebody else
ReplySamples ==
    { Message(Txt_SU_HEY, <<Entity("mention", 0, 3, "nobody")>>, "nobody", FALSE),
      Message(Txt_SU_HEY, <<>>, "nobody", FALSE),
      Message(Txt_hi, <<>>, BotId, FALSE),
      Message(Txt_hi, <<Entity("text_mention", 0, 2, BotId)>>, "nobody", FALSE),
      Message(Txt_x_Su, <<Entity("mention", 6, 2, "nobody")>>, "nobody", FALSE) }

\* the characters of the texts the mention detector is run on
MentionChars == {" ", "@", "s", "U", "x", Emoji}

TextsOfLen(n) == [1..n -> MentionChars]

\* a message of a user with one mention entity
MentionMsg(text, offset, length) ==
    Message(text, <<Entity("mention", offset, length, "nobody")>>, "nobody", FALSE)

\* one /remind timestamp of each shape, for now or for later
WhenSamples ==
    {[shape |-> "iso", dt |-> Naive(1, 0)]}
        \cup {[shape |-> sh, dt |-> Naive(0, 0)] : sh \in WhenShapes \ {"iso"}}

Init ==
    /\ settings = {}
    /\ messages = <<>>
    /\ reminders = {}
    /\ clock = Naive(0, 0)
    /\ scans = <<>>
    /\ finished = [fired |-> {}, failed |-> FALSE]
    /\ ids = <<>>
    /\ attempts = [s \in 1..MaxSched |-> 0]
    /\ late = {}
    /\ lastOp = [op |-> "none"]
    /\ reply = <<>>

Next ==
    \/ \E hasBar \in BOOLEAN, w \in WhenTexts : cmd_remind(hasBar, w)
    \/ ScanStart
    \/ \E k \in ScanIds, ok \in BOOLEAN : ScanResume(k, ok)
    \/ Tick

Spec == Init /\ [][Next]_vars

\* well-formed /remind commands, for now or for later
ScanSamples == {w \in WhenSamples : w.shape \in {"iso", "ymd_hm"}}

\* the reminder scans again, over reminders of well-formed /remind commands
NextScan ==
    \/ \E w \in ScanSamples : cmd_remind(TRUE, w)
    \/ ScanStart
    \/ \E k \in ScanIds, ok \in BOOLEAN : ScanResume(k, ok)
    \/ Tick

SpecScan == Init /\ [][NextScan]_vars

\* the handlers of the chat commands and of the messages
NextChat ==
    \/ \E chat \in Chats : \E o \in Lookups(chat) :
          cmd_learn_on(chat, o.status, o.lookup, o.denialSent)
    \/ \E chat \in Chats : \E o \in Lookups(chat) :
          cmd_learn_off(chat, o.status, o.lookup, o.denialSent)
    \/ \E chat \in Chats, args \in ToneArgs : cmd_settone(chat, args)
    \/ \E chat \in Chats, m \in MsgSamples : \E e \in Outcomes(chat, m) :
          message_handler(chat, m, e.stored, e.installed, e.fetched, e.built,
                          e.firstOK, e.sendFails, e.candidate)

SpecChat == Init /\ [][NextChat]_vars

\* the reply composer in one chat, with every outcome of what it calls
NextReply ==
    \/ \E args \in {<<"kind">>, <<"Angry">>} : cmd_settone("group_chat", args)
    \/ \E args \in {<<"TA">>, <<"hi">>} : cmd_setlang("group_chat", args)
    \/ cmd_learn_on("group_chat", "creator", "ok", TRUE)
    \/ \E m \in ReplySamples : \E e \in ReplyOutcomes("group_chat", m) :
          message_handler("group_chat", m, e.stored, e.installed, e.fetched,
                          e.built, e.firstOK, e.sendFails, e.candidate)

SpecReply == Init /\ [][NextReply]_vars

\* a shouted message with and without the mention of the bot
IsoSamples ==
    { Message(Txt_SU_HEY, <<Entity("mention", 0, 3, "nobody")>>, "nobody", FALSE),
      Message(Txt_SU_HEY, <<>>, "nobody", FALSE) }

\* the two chats side by side: their settings commands and their messages
NextIso ==
    \/ \E chat \in Chats : cmd_settone(chat, <<"angry">>)
    \/ \E chat \in Chats : cmd_setlang(chat, <<"ta">>)
    \/ \E chat \in Chats :
          cmd_learn_on(chat, "creator",
                       IF ChatType(chat) = "private" THEN "none" ELSE "ok", TRUE)
    \/ \E chat \in Chats, m \in IsoSamples : \E e \in Outcomes(chat, m) :
          message_handler(chat, m, e.stored, e.installed, e.fetched, e.built,
                          e.firstOK, e.sendFails, e.candidate)

SpecIso == Init /\ [][NextIso]_vars

\* the handlers of the commands that take an argument the user may get wrong,
\* with the other writers of table settings
NextCmd ==
    \/ \E chat \in Chats, args \in ToneArgs : cmd_settone(chat, args)
    \/ \E chat \in Chats, args \in LangArgs : cmd_setlang(chat, args)
    \/ \E hasBar \in BOOLEAN, w \in WhenSamples : cmd_remind(hasBar, w)
    \/ \E chat \in Chats : \E o \in Lookups(chat) :
          cmd_learn_on(chat, o.status, o.lookup, o.denialSent)
    \/ \E chat \in Chats : \E o \in Lookups(chat) :
          cmd_learn_off(chat, o.status, o.lookup, o.denialSent)

SpecCmd == Init /\ [][NextCmd]_vars

\* the characters of the texts apply_tone is applied to
ToneChars == {" ", "a", "B", "!"}

\* the first application of apply_tone of a run, to a text of at most MaxLen
\* characters
NextTone ==
    /\ lastOp.op = "none"
    /\ \E n \in 0..MaxLen : \E text \in [1..n -> ToneChars] : \E tone \in Tones :
          ToneApplied(text, tone)

SpecTone == Init /\ [][NextTone]_vars

\* the handling of the first message of a run, a message with a mention
\* of at most MaxLen characters and one mention entity that lies inside it
NextMention ==
    /\ lastOp.op = "none"
    /\ \E n \in 1..MaxLen : \E text \in TextsOfLen(n) :
          \E offset \in 0..(Len(Utf16(text)) - 1) :
            \E length \in 1..(Len(Utf16(text)) - offset) :
              \E e \in Outcomes("group_chat", MentionMsg(text, offset, length)) :
                message_handler("group_chat", MentionMsg(text, offset, length),
                                e.stored, e.installed, e.fetched, e.built,
                                e.firstOK, e.sendFails, e.candidate)

SpecMention == Init /\ [][NextMention]_vars

(***************************************************************************)
(* The reminders that have been scheduled, and those some running scan has *)
(* fetched and not yet sent.                                               *)
(***************************************************************************)
Scheduled == 1..Len(ids)

Pending ==
    UNION {{scans[k].due[j].seq : j \in (scans[k].i + 1)..Len(scans[k].due)} :
             k \in 1..Len(scans)}

\* C1: the send capability is invoked at most once for each scheduled
\* reminder, whatever the interleaving of scans, schedule requests and sends.
C1_AtMostOneAttempt == \A s \in 1..MaxSched : attempts[s] <= 1

ClockValues == {Naive(t, us) : t \in 0..MaxTime, us \in 0..1}

\* C2: once a scan has finished, every reminder it fetched as due is gone from
\* the store, whether its send succeeded or failed, and a dueReminders call
\* returns none of them, at the scan's instant or at any other.
C2_FiredRemoved ==
    /\ finished.fired \cap Seqs(reminders) = {}
    /\ \A asOf \in ClockValues :
          finished.fired \cap Seqs(get_due_reminders(reminders, asOf)) = {}

\* a scan has finished after a send of its own failed, while a reminder it did
\* not fetch is stored
C2_FinishedAfterFailedSend ==
    /\ finished.failed
    /\ finished.fired # {}
    /\ reminders # {}

\* C3: every scheduled reminder is in the end sent by a scan started at or
\* after its dueAt.  A reminder that is neither stored nor in the rest of a
\* running scan's due list can never be fetched, so never sent, again: for it
\* the attempt the claim promises must already have been made.
C3_EveryReminderAttempted ==
    \A s \in Scheduled : (s \notin Seqs(reminders) /\ s \notin Pending) => s \in late

\* C4: dueReminders(asOf) returns exactly the stored reminders whose dueAt,
\* read as an absolute UTC instant, is at or before asOf.
C4_DueExactlyAtOrBefore ==
    get_due_reminders(reminders, clock)
        = {r \in reminders : InstantLE(Instant(r.dt), Instant(clock))}

\* C5: every schedule call yields an id strictly greater than every id an
\* earlier schedule call yielded.
C5_IdsStrictlyIncreasing ==
    \A i, j \in 1..Len(ids) : i < j => ids[i] < ids[j]

(***************************************************************************)
(* What table settings holds for a chat: its row, or the defaults.         *)
(***************************************************************************)
Stored(tbl, chat) ==
    IF \E r \in tbl : r.chat_id = chat
    THEN CHOOSE r \in tbl : r.chat_id = chat
    ELSE [chat_id |-> chat, learn_enabled |-> 0, tone |-> "kind", lang |-> "en"]

LearningEnabled(chat) == Stored(settings, chat).learn_enabled # 0

Utterances(tbl, chat) == SelectSeq(tbl, LAMBDA r : r.chat_id = chat)

\* C6: while a conversation's learningEnabled is false, or it has no settings
\* record, no step appends an utterance for it.
C6_NoAppendWithoutLearning ==
    [][\A c \in Chats :
          ~LearningEnabled(c) => Utterances(messages', c) = Utterances(messages, c)]_vars

\* a message of a user was handled in a chat that does not learn, while
\* another chat has learned
C6_HandledWithoutLearning ==
    /\ lastOp.op = "message"
    /\ lastOp.msg.text # <<>>
    /\ ~lastOp.msg.is_bot
    /\ ~LearningEnabled(lastOp.chat)
    /\ Utterances(messages, lastOp.chat) = <<>>
    /\ messages # <<>>

\* the step is a learning command of someone who is no administrator of a
\* multi-party conversation
NonAdminLearn ==
    /\ lastOp'.op \in {"learn_on", "learn_off"}
    /\ ChatType(lastOp'.chat) \in {"group", "supergroup"}
    /\ lastOp'.status \notin AdminStatuses

\* C7: a learning command of a non-administrator in a multi-party conversation
\* changes no setting and is answered with the denial alone, whatever the
\* membership lookup does.
C7_NonAdminNeverChangesLearning ==
    [][NonAdminLearn =>
          /\ settings' = settings
          /\ Len(reply') = 1
          /\ reply'[1].kind \in {"Only group admins can enable learning.",
                                  "Only group admins can disable learning."}]_vars

\* the step is a tone, language or learning command that writes
WritesTone == lastOp'.op = "settone" /\ reply'[1].kind = "Tone set to"

WritesLang == lastOp'.op = "setlang" /\ reply'[1].kind = "Language set to"

WritesLearning ==
    /\ lastOp'.op \in {"learn_on", "learn_off"}
    /\ reply'[Len(reply')].kind \in {"Learning ENABLED for this chat.",
                                       "Learning DISABLED for this chat."}

\* C8: a settings write changes its own field only, the other fields being
\* those of the record or the defaults kind/en/false, and the written field
\* reads back as written.
C8_WritesOwnFieldOnly ==
    [][LET c == lastOp'.chat
           old == Stored(settings, c)
           new == Stored(settings', c)
       IN  /\ WritesTone =>
                 /\ new.lang = old.lang /\ new.learn_enabled = old.learn_enabled
                 /\ get_setting(settings', c, "tone", "none")
                        = LowerWord(lastOp'.args[1])
           /\ WritesLang =>
                 /\ new.tone = old.tone /\ new.learn_enabled = old.learn_enabled
                 /\ get_setting(settings', c, "lang", "none")
                        = LowerWord(lastOp'.args[1])
           /\ WritesLearning =>
                 /\ new.tone = old.tone /\ new.lang = old.lang
                 /\ is_learning_enabled(settings', c) = (lastOp'.op = "learn_on")]_vars

\* the tone was written in a chat whose language and learning flag were not
\* the defaults, and the language in one whose tone was not
C8_WroteBesideOtherFields ==
    /\ lastOp.op = "settone"
    /\ reply[1].kind = "Tone set to"
    /\ Stored(settings, lastOp.chat).lang = "ta"
    /\ Stored(settings, lastOp.chat).learn_enabled = 1
    /\ Stored(settings, lastOp.chat).tone = "angry"

\* the step is a command whose argument is a user input error
BadTone ==
    /\ lastOp'.op = "settone"
    /\ lastOp'.args = <<>> \/ LowerWord(lastOp'.args[1]) \notin Tones

BadLang ==
    /\ lastOp'.op = "setlang"
    /\ lastOp'.args = <<>> \/ LowerWord(lastOp'.args[1]) \notin Langs

BadWhen ==
    /\ lastOp'.op = "remind"
    /\ ~lastOp'.hasBar \/ lastOp'.shape = "junk"

UsageMessages ==
    {"Usage: /settone kind|angry", "Tone must be kind or angry.",
     "Usage: /setlang en|ta|hi", "Language must be en, ta, or hi",
     UsageRemind, CouldntParse}

\* C9: a tone or language command whose value (letter case aside) is not one
\* of the tones or languages, and a reminder command whose timestamp does not
\* parse, is answered with a usage message and changes neither the settings
\* nor the reminders; every stored tone is kind or angry, every stored
\* language en, ta or hi.
C9_InputErrorsMutateNothing ==
    /\ [](\A r \in settings : r.tone \in Tones /\ r.lang \in Langs)
    /\ [][(BadTone \/ BadLang \/ BadWhen) =>
             /\ settings' = settings
             /\ reminders' = reminders
             /\ messages' = messages
             /\ Len(reply') = 1
             /\ reply'[1].kind \in UsageMessages]_vars

\* a tone outside the tones was refused in a chat that has settings and while
\* a reminder is stored
C9_RefusedBadTone ==
    /\ lastOp.op = "settone"
    /\ lastOp.args = <<"loud">>
    /\ reply = <<Said("Tone must be kind or angry.")>>
    /\ Stored(settings, lastOp.chat).tone = "angry"
    /\ reminders # {}

\* the message carries a username-mention span that covers exactly "@" and the
\* bot's username, in any letter case, in the message text (offset and length
\* count UTF-16 code units)
HasBotMentionSpan(m) ==
    \E n \in 1..Len(m.entities) :
        LET ent == m.entities[n]
            units == Utf16(m.text)
        IN  /\ ent.type = "mention"
            /\ ent.offset + ent.length <= Len(units)
            /\ lower(SubSeq(units, ent.offset + 1, ent.offset + ent.length))
                   = <<"@">> \o lower(BotUsername)

\* the handler took the message as addressed: it replied to the mention
RepliedToMention ==
    Len(reply) = 1 /\ reply[1].kind \in {"generated", "fallback"}

\* C10: a message with a username-mention span covering exactly "@" and the
\* bot's username is detected as addressed, whatever else its text holds.
C10_BotMentionSpanDetected ==
    (lastOp.op = "message" /\ HasBotMentionSpan(lastOp.msg)) => RepliedToMention

\* what makes a message addressed: a proper mention span of the bot, a
\* text_mention of the bot's user, or a reply to a message of the bot
Addressed(m) ==
    \/ HasBotMentionSpan(m)
    \/ \E n \in 1..Len(m.entities) :
          m.entities[n].type = "text_mention" /\ m.entities[n].user = BotId
    \/ m.reply_to = BotId

\* the handler called reply_text with a generated sentence or a fallback
MentionReplySent ==
    \E i \in 1..Len(reply) : reply[i].kind \in {"generated", "fallback"}

\* C11: a mention reply is produced only for an addressed message: one with a
\* mention span covering exactly the bot's username, a text_mention of the bot
\* or a reply to the bot; the username as a substring of the text is not enough.
C11_OnlyAddressedGetMentionReply ==
    (lastOp.op = "message" /\ MentionReplySent) => Addressed(lastOp.msg)

\* C12: at most one reply per incoming message: on every path through
\* message_handler, reply_text is invoked at most once.
C12_AtMostOneReply == lastOp.op = "message" => Len(reply) <= 1

\* the message handled last is shouted in a chat whose tone is angry
Shouted ==
    /\ lastOp.op = "message"
    /\ isupper(strip(lastOp.msg.text))
    /\ Len(strip(lastOp.msg.text)) > ScoldMinLen
    /\ get_setting(settings, lastOp.chat, "tone", "kind") = "angry"

\* C13: the scolding rule is independent of addressing: an all-uppercase
\* message longer than the minimum length in a chat of tone angry is answered
\* with the scolding reply, addressed to the bot or not.
C13_ShoutedIsScolded == Shouted => reply = <<Said("Calm down please!")>>

\* the message handled last was taken as addressed
TakenAsAddressed ==
    /\ lastOp.op = "message"
    /\ lastOp.msg.text # <<>>
    /\ Mentioned(strip(lastOp.msg.text), lastOp.msg)

\* build_markov gave a model for the message handled last
HadModel == build_markov(messages, lastOp.chat, lastOp.installed, lastOp.built).model

\* the fallback greeting and the generated sentence in the chat's tone
FallbackReply ==
    [kind |-> "fallback",
     text |-> apply_tone(Fallbacks(Stored(settings, lastOp.chat).lang),
                         Stored(settings, lastOp.chat).tone)]

GeneratedReply ==
    [kind |-> "generated",
     text |-> apply_tone(lastOp.candidate, Stored(settings, lastOp.chat).tone)]

\* C14: for an addressed message the reply is the tone transform of the
\* fallback greeting of the chat's language (en without a record) when there
\* is no model or no attempt yields a sentence, and only then; otherwise it is
\* the tone transform of the first generated sentence.
C14_FallbackOnlyWithoutSentence ==
    TakenAsAddressed =>
        IF ~HadModel \/ lastOp.firstOK > MaxTries
        THEN reply = <<FallbackReply>>
        ELSE reply = <<GeneratedReply>>

\* an internal error occurred while the model was built or a sentence made
InternalError ==
    \/ lastOp.installed /\ ~lastOp.fetched
    \/ ~lastOp.built
    \/ lastOp.firstOK > MaxTries

\* C15: an internal error of the model construction (the fetch of the learned
\* lines included) or of the generation never leaves message_handler: the
\* addressed message is still answered, with the fallback.
C15_ErrorsDegradeToFallback ==
    (TakenAsAddressed /\ InternalError) => reply = <<FallbackReply>>

\* the step handles a message of a user in a chat that learns, and the insert
\* of store_message fails
FailedStore ==
    /\ lastOp'.op = "message"
    /\ lastOp'.msg.text # <<>>
    /\ is_learning_enabled(settings, lastOp'.chat)
    /\ ~lastOp'.msg.is_bot
    /\ ~lastOp'.stored

\* the reply is one the handler can give to the message had the insert
\* succeeded, the other calls doing as they did
RepliesAsIfStored ==
    LET chat == lastOp'.chat
        m == lastOp'.msg
        text == strip(m.text)
        tbl == store_message(messages, chat, text, TRUE)
    IN  \E e \in ReplyOutcomes(chat, m) :
          /\ e.stored
          /\ e.installed = lastOp'.installed
          /\ e.fetched = lastOp'.fetched
          /\ e.sendFails = lastOp'.sendFails
          /\ reply' = Replies(settings, tbl, chat, text, m, e.installed, e.fetched,
                              e.built, e.firstOK, e.sendFails, e.candidate)

\* C16: a failure of the insert of a learned line is swallowed: the line is
\* not stored, nothing else changes, and the handler goes on to the mention
\* detection and replies as it can when the insert succeeds.
C16_FailedStoreIsSwallowed ==
    [][FailedStore =>
          /\ messages' = messages
          /\ settings' = settings
          /\ RepliesAsIfStored]_vars

\* after a failed insert, an addressed message was answered with a sentence
\* generated from the lines learned before
C16_RepliedAfterFailedStore ==
    /\ TakenAsAddressed
    /\ is_learning_enabled(settings, lastOp.chat)
    /\ ~lastOp.msg.is_bot
    /\ ~lastOp.stored
    /\ messages # <<>>
    /\ reply = <<GeneratedReply>>

\* C17, as the specification states it: under tone kind the text is unchanged
\* (twice as once); under tone angry the result is the uppercased text with
\* "!" appended, for every text.
C17_AngryUppercasesEveryText ==
    lastOp.op = "apply_tone" =>
        /\ lastOp.tone = "kind" =>
              reply[1].text = lastOp.text /\ reply[2].text = reply[1].text
        /\ lastOp.tone = "angry" => reply[1].text = upper(lastOp.text) \o <<"!">>

\* C17, amended: under tone kind the text is unchanged (twice as once); under
\* tone angry the result is the text without its surrounding whitespace,
\* uppercased, with "!" appended, and "HMM." for a blank text.
C17_AngryUppercasesStrippedText ==
    lastOp.op = "apply_tone" =>
        /\ lastOp.tone = "kind" =>
              reply[1].text = lastOp.text /\ reply[2].text = reply[1].text
        /\ lastOp.tone = "angry" =>
              reply[1].text = IF \A i \in 1..Len(lastOp.text) : IsSpace(lastOp.text[i])
                              THEN <<"H", "M", "M", ".">>
                              ELSE upper(strip(lastOp.text)) \o <<"!">>

\* the angry tone was applied to a text with whitespace around it
C17_AngryOnPaddedText ==
    /\ lastOp.op = "apply_tone"
    /\ lastOp.tone = "angry"
    /\ lastOp.text = <<" ", "a", "B", " ">>
    /\ reply[1].text = <<"A", "B", "!">>

\* C18: the handling of an addressed message ends with a reply after at most
\* MaxTries attempts at a sentence: the first sentence is sent at once, and
\* the fallback only when there is no model or every attempt has been made.
C18_RepliesWithinMaxTries ==
    TakenAsAddressed =>
        /\ reply # <<>>
        /\ reply[Len(reply)].kind \in {"generated", "fallback"}
        /\ HadModel =>
              /\ GenerationTries(lastOp.firstOK, lastOp.sendFails) <= MaxTries
              /\ lastOp.firstOK <= MaxTries => reply[1] = GeneratedReply
              /\ reply[Len(reply)].kind = "fallback" =>
                    GenerationTries(lastOp.firstOK, lastOp.sendFails) = MaxTries

\* C19: a reminder is removed from the store only after send has been invoked
\* for that same reminder: no step removes a reminder no scan has fetched and
\* sent.
C19_RemovedOnlyAfterAttempt ==
    [][\A r \in reminders : r \notin reminders' => attempts[r.seq] >= 1]_vars

\* the step is the handling of a message or of a settings command in a chat
ChatStep == lastOp'.op \in {"message", "settone", "setlang", "learn_on", "learn_off"}

\* C20: handling a message or a settings command in one chat changes neither
\* the settings nor the learned lines of another chat, and the reply to a
\* message is the one composed from the chat's own settings row and its own
\* learned lines alone.
C20_ChatsAreIsolated ==
    [][ChatStep =>
          LET c == lastOp'.chat
              m == lastOp'.msg
          IN  /\ \A d \in Chats \ {c} :
                    /\ RowsOf(settings', d) = RowsOf(settings, d)
                    /\ Utterances(messages', d) = Utterances(messages, d)
              /\ (lastOp'.op = "message" /\ m.text # <<>>) =>
                    reply' = Replies(RowsOf(settings, c), Utterances(messages', c),
                                     c, strip(m.text), m, lastOp'.installed,
                                     lastOp'.fetched, lastOp'.built, lastOp'.firstOK,
                                     lastOp'.sendFails, lastOp'.candidate)]_vars

\* a message in the private chat was answered with a generated sentence in
\* the chat's own tone, while the group has another tone, another language
\* and learned lines of its own
C20_RepliedBesideOtherChat ==
    /\ TakenAsAddressed
    /\ lastOp.chat = "private_chat"
    /\ reply = <<GeneratedReply>>
    /\ Stored(settings, "private_chat").tone = "kind"
    /\ Stored(settings, "group_chat").tone = "angry"
    /\ Stored(settings, "group_chat").lang = "ta"
    /\ Utterances(messages, "group_chat") # <<>>

=============================================================================
